---- MODULE Spec2Model ----
(***************************************************************************)
(* Model of the two re-tiling scripts of the repository:                   *)
(*   patterns/a4_to_a0.py        42 A4 tiles (6 rows x 7 columns) composed  *)
(*                               onto 4 portrait A0 sheets                  *)
(*   patterns/convert_full_a0.py every input page centred on its own sheet  *)
(*                                                                         *)
(* Lengths.  The scripts compute in PostScript points with the factor      *)
(* MM2PT = 72/25.4.  Every expression of the scripts is linear in lengths, *)
(* so the model measures lengths in a fixed-point unit of 1/20 mm (MM2PT   *)
(* units per millimetre).  All lengths are then even integers and the      *)
(* halvings of the scripts are exact.  Floating-point rounding is not      *)
(* modelled.                                                               *)
(*                                                                         *)
(* Input.  A document is a sequence of pages, each with a media box whose  *)
(* lower-left corner is the origin.  For a4_to_a0 all pages have the size  *)
(* of page 0 ("page 0 is representative", a4_to_a0.py:30).                 *)
(***************************************************************************)
EXTENDS Integers, Sequences, FiniteSets

VARIABLES prog, pc, pages, tile_w, tile_h, sheets, idx, placed, written

vars == <<prog, pc, pages, tile_w, tile_h, sheets, idx, placed, written>>

\* ---------------------------------------------------------------- bounds
MaxExtraPages == 1      \* page counts 42-MaxExtraPages .. 42+MaxExtraPages
MaxTileDev    == 2      \* tile sizes nominal +/- MaxTileDev steps
MaxPages      == 2      \* convert_full_a0: at most MaxPages input pages
MaxConvDev    == 3      \* convert_full_a0: page sizes 1..MaxConvDev margins below the sheet

\* ------------------------------------------------------------- constants
MM2PT == 20

\* a4_to_a0.py
A0_W_PT == 841 * MM2PT
A0_H_PT == 1189 * MM2PT
ROWS == 6
COLS == 7
ROWS_PER_BLOCK == 3
COLS_PER_BLOCK == <<4, 3>>
EXPECTED_PAGES == 42
crop_pt == (32 * MM2PT) \div 10          \* crop_mm = 3.2
padding_pt == 5 * MM2PT                  \* padding_mm = 5
NUM_SHEETS == 4

\* convert_full_a0.py
A4_expected_w == 210 * MM2PT
A4_expected_h == 297 * MM2PT
Conv_A0_W_PT == A4_expected_w * 4
Conv_A0_H_PT == A4_expected_h * 4
MARGIN_PT == 10 * MM2PT                  \* MARGIN_MM = 10

\* ---------------------------------------------------------------- inputs
Page(w, h) == [w |-> w, h |-> h]

\* the media box of a page as read from the document
mediabox(page) == [llx |-> 0, lly |-> 0, urx |-> page.w, ury |-> page.h]

TileSizes ==
    { Page(A4_expected_w + k * 5 * MM2PT, A4_expected_h + j * 60 * MM2PT) :
        k \in (0 - MaxTileDev)..MaxTileDev, j \in (0 - MaxTileDev)..MaxTileDev }

PageCounts == (EXPECTED_PAGES - MaxExtraPages)..(EXPECTED_PAGES + MaxExtraPages)

A4Inputs == { [i \in 1..n |-> t] : n \in PageCounts, t \in TileSizes }

ConvSizes ==
    { Page(Conv_A0_W_PT - k * MARGIN_PT, Conv_A0_H_PT - j * MARGIN_PT) :
        k \in 1..MaxConvDev, j \in 1..MaxConvDev }

ConvInputs == UNION { [1..n -> ConvSizes] : n \in 0..MaxPages }

\* ------------------------------------------------- a4_to_a0.py: geometry
PageCountOk_off(n) == n >= EXPECTED_PAGES
PageCountOk(n) == n = EXPECTED_PAGES

effective_width(tw)  == COLS_PER_BLOCK[1] * tw - (COLS_PER_BLOCK[1] - 1) * crop_pt
effective_height(th) == ROWS_PER_BLOCK * th - (ROWS_PER_BLOCK - 1) * crop_pt

LEFT_BLOCK_MARGIN_X_nohalf(tw) == padding_pt + (A0_W_PT - effective_width(tw) - 2 * padding_pt)
LEFT_BLOCK_MARGIN_X(tw) == padding_pt + (A0_W_PT - effective_width(tw) - 2 * padding_pt) \div 2
RIGHT_BLOCK_MARGIN_X == padding_pt
TOP_BLOCK_MARGIN_Y(th) == padding_pt + (A0_H_PT - effective_height(th) - 2 * padding_pt) \div 2
BOTTOM_BLOCK_MARGIN_Y == padding_pt

col_block_off(col) == IF col < 3 THEN 0 ELSE 1
col_block(col) == IF col < 4 THEN 0 ELSE 1
row_block(row) == IF row < 3 THEN 0 ELSE 1
a0_idx_sum(row, col) == row_block(row) + col_block(col)
a0_idx(row, col) == row_block(row) * 2 + col_block(col)

gx_nocrop(col, tw) == col * tw
gx(col, tw) == IF col > 0 THEN col * tw - 2 * col * crop_pt ELSE col * tw
gy(row, th) ==
    IF row < ROWS - 1
    THEN (ROWS - 1 - row) * th - 2 * (ROWS - 1 - row) * crop_pt
    ELSE (ROWS - 1 - row) * th

block_x0_nocrop(col, tw) == IF col_block(col) = 0 THEN 0 ELSE 4 * tw
block_x0(col, tw) == IF col_block(col) = 0 THEN 0 ELSE 4 * tw - 8 * crop_pt
block_y0(row, th) == IF row_block(row) = 0 THEN 3 * th - 6 * crop_pt ELSE 0

lx(col, tw) ==
    gx(col, tw) - block_x0(col, tw)
    + (IF col_block(col) = 0 THEN LEFT_BLOCK_MARGIN_X(tw) ELSE RIGHT_BLOCK_MARGIN_X)
ly(row, th) ==
    gy(row, th) - block_y0(row, th)
    + (IF row_block(row) = 0 THEN TOP_BLOCK_MARGIN_Y(th) ELSE BOTTOM_BLOCK_MARGIN_Y)

crop_left_local(col) == col % 4 > 0
crop_left(col)   == col > 0
crop_right(col)  == col < COLS - 1
crop_top(row)    == row > 0
crop_bottom_off(row) == row < ROWS
crop_bottom(row) == row < ROWS - 1

\* the four in-place media box updates, in the order of the script
cropped_page(box, row, col) ==
    LET b1 == IF crop_left(col)   THEN [box EXCEPT !.llx = @ + crop_pt] ELSE box
        b2 == IF crop_right(col)  THEN [b1 EXCEPT !.urx = @ - crop_pt] ELSE b1
        b3 == IF crop_bottom(row) THEN [b2 EXCEPT !.lly = @ + crop_pt] ELSE b2
        b4 == IF crop_top(row)    THEN [b3 EXCEPT !.ury = @ - crop_pt] ELSE b3
    IN  b4

\* one merge_transformed_page call: what was merged where
Placement(i, row, col, sheet, x, y, box, cl, cr, ct, cb) ==
    [idx |-> i, row |-> row, col |-> col, a0_idx |-> sheet,
     lx |-> x, ly |-> y, box |-> box,
     crop_left |-> cl, crop_right |-> cr, crop_top |-> ct, crop_bottom |-> cb]

\* ------------------------------------------ convert_full_a0.py: geometry
too_big(page) ==
    \/ (Conv_A0_W_PT - page.w) < 2 * MARGIN_PT
    \/ (Conv_A0_H_PT - page.h) < 2 * MARGIN_PT
new_w_margin(page) == (Conv_A0_W_PT - page.w) \div 2
new_h_margin(page) == (Conv_A0_H_PT - page.h) \div 2

\* ------------------------------------------------------------------ Init
Init ==
    /\ prog \in {"a4_to_a0", "convert_full_a0"}
    /\ pages \in (IF prog = "a4_to_a0" THEN A4Inputs ELSE ConvInputs)
    /\ pc = "start"
    /\ tile_w = 0
    /\ tile_h = 0
    /\ sheets = 0
    /\ idx = 0
    /\ placed = {}
    /\ written = FALSE

\* ------------------------------------------------- a4_to_a0.py: actions
\* lines 26-28: wrong page count, sys.exit
A4BadPageCount ==
    /\ prog = "a4_to_a0"
    /\ pc = "start"
    /\ ~PageCountOk(Len(pages))
    /\ pc' = "fatal"
    /\ UNCHANGED <<prog, pages, tile_w, tile_h, sheets, idx, placed, written>>

\* lines 26-59: page count accepted, tile size read from page 0,
\* four blank A0 sheets added to the writer
A4Setup ==
    /\ prog = "a4_to_a0"
    /\ pc = "start"
    /\ PageCountOk(Len(pages))
    /\ tile_w' = mediabox(pages[1]).urx - mediabox(pages[1]).llx
    /\ tile_h' = mediabox(pages[1]).ury - mediabox(pages[1]).lly
    /\ sheets' = NUM_SHEETS
    /\ idx' = 0
    /\ pc' = "loop"
    /\ UNCHANGED <<prog, pages, placed, written>>

\* lines 61-125: one iteration of the loop over reader.pages
A4PlaceTile ==
    /\ prog = "a4_to_a0"
    /\ pc = "loop"
    /\ idx < Len(pages)
    /\ LET row == idx \div COLS
           col == idx % COLS
           box == cropped_page(mediabox(pages[idx + 1]), row, col)
       IN  /\ a0_idx(row, col) \in 0..(sheets - 1)
           /\ placed' = placed \cup
                { Placement(idx, row, col, a0_idx(row, col),
                            lx(col, tile_w), ly(row, tile_h), box,
                            crop_left(col), crop_right(col),
                            crop_top(row), crop_bottom(row)) }
    /\ idx' = idx + 1
    /\ UNCHANGED <<prog, pc, pages, tile_w, tile_h, sheets, written>>

LoopDone_early == idx >= 1
LoopDone == idx = Len(pages)

\* lines 127-129: the loop is over, the writer is written to dst
A4Write ==
    /\ prog = "a4_to_a0"
    /\ pc = "loop"
    /\ LoopDone
    /\ written' = TRUE
    /\ pc' = "done"
    /\ UNCHANGED <<prog, pages, tile_w, tile_h, sheets, idx, placed>>

\* ------------------------------------------ convert_full_a0.py: actions
\* lines 28-33: one blank sheet per input page
ConvSetup ==
    /\ prog = "convert_full_a0"
    /\ pc = "start"
    /\ sheets' = Len(pages)
    /\ idx' = 0
    /\ pc' = "loop"
    /\ UNCHANGED <<prog, pages, tile_w, tile_h, placed, written>>

\* lines 35-42: the page leaves less than the margin, sys.exit
ConvTooBig ==
    /\ prog = "convert_full_a0"
    /\ pc = "loop"
    /\ idx < Len(pages)
    /\ too_big(pages[idx + 1])
    /\ tile_w' = pages[idx + 1].w
    /\ tile_h' = pages[idx + 1].h
    /\ pc' = "fatal"
    /\ UNCHANGED <<prog, pages, sheets, idx, placed, written>>

\* lines 35-53: the page is centred on the sheet of the same index
ConvPlace ==
    /\ prog = "convert_full_a0"
    /\ pc = "loop"
    /\ idx < Len(pages)
    /\ ~too_big(pages[idx + 1])
    /\ tile_w' = pages[idx + 1].w
    /\ tile_h' = pages[idx + 1].h
    /\ placed' = placed \cup
         { Placement(idx, 0, 0, idx,
                     new_w_margin(pages[idx + 1]), new_h_margin(pages[idx + 1]),
                     mediabox(pages[idx + 1]), FALSE, FALSE, FALSE, FALSE) }
    /\ idx' = idx + 1
    /\ UNCHANGED <<prog, pc, pages, sheets, written>>

\* lines 55-57
ConvWrite ==
    /\ prog = "convert_full_a0"
    /\ pc = "loop"
    /\ LoopDone
    /\ written' = TRUE
    /\ pc' = "done"
    /\ UNCHANGED <<prog, pages, tile_w, tile_h, sheets, idx, placed>>

Next ==
    \/ A4BadPageCount
    \/ A4Setup
    \/ A4PlaceTile
    \/ A4Write
    \/ ConvSetup
    \/ ConvTooBig
    \/ ConvPlace
    \/ ConvWrite

Spec == Init /\ [][Next]_vars

\* ------------------------------------------------------------ properties
A4 == prog = "a4_to_a0"
Conv == prog = "convert_full_a0"

\* the visible rectangle of a placement on its sheet: the cropped media box
\* translated by (lx, ly)
vis_x0(p) == p.lx + p.box.llx
vis_x1(p) == p.lx + p.box.urx
vis_y0(p) == p.ly + p.box.lly
vis_y1(p) == p.ly + p.box.ury

B2N(b) == IF b THEN 1 ELSE 0
cropped_width(p)  == tile_w - crop_pt * (B2N(p.crop_left) + B2N(p.crop_right))
cropped_height(p) == tile_h - crop_pt * (B2N(p.crop_top) + B2N(p.crop_bottom))

\* C1. Seam continuity: for two tiles side by side on one sheet the right
\* tile's cropped lower-left corner lands at the left tile's plus the left
\* tile's cropped width; for two tiles one above the other on one sheet the
\* upper tile's cropped lower-left corner lands at the lower tile's plus the
\* lower tile's cropped height.
C1_SeamContinuity ==
    A4 => \A p, q \in placed :
            /\ (q.row = p.row /\ q.col = p.col + 1 /\ q.a0_idx = p.a0_idx)
                 => vis_x0(q) = vis_x0(p) + cropped_width(p)
            /\ (q.col = p.col /\ q.row + 1 = p.row /\ q.a0_idx = p.a0_idx)
                 => vis_y0(q) = vis_y0(p) + cropped_height(p)

C1_Witness ==
    /\ A4
    /\ \E p, q \in placed :
         q.row = p.row /\ q.col = p.col + 1 /\ q.a0_idx = p.a0_idx /\ p.col = 0
    /\ \E p, q \in placed :
         q.col = p.col /\ q.row + 1 = p.row /\ q.a0_idx = p.a0_idx /\ p.row = 5

\* C2 (as stated). Edge-crop rule by position in the block: top trimmed iff
\* localRow > 0, left iff localCol > 0, bottom iff localRow < 2 and row < 5,
\* right iff localCol < 3 and col < 6.
C2_BlockLocalCropRule ==
    A4 => \A p \in placed :
            LET localRow == p.row % ROWS_PER_BLOCK
                localCol == p.col % COLS_PER_BLOCK[1]
            IN  /\ p.crop_top    <=> (localRow > 0)
                /\ p.crop_left   <=> (localCol > 0)
                /\ p.crop_bottom <=> (localRow < ROWS_PER_BLOCK - 1 /\ p.row < 5)
                /\ p.crop_right  <=> (localCol < COLS_PER_BLOCK[1] - 1 /\ p.col < 6)

\* C2 (amended). Edge-crop rule by position in the whole grid: top trimmed
\* iff row > 0, left iff col > 0, bottom iff row < 5, right iff col < 6,
\* and the merged media box is the page's media box moved in by crop_pt on
\* exactly the trimmed edges.
C2_GridCropRule ==
    A4 => \A p \in placed :
            /\ p.crop_top    <=> (p.row > 0)
            /\ p.crop_left   <=> (p.col > 0)
            /\ p.crop_bottom <=> (p.row < 5)
            /\ p.crop_right  <=> (p.col < 6)
            /\ p.box.llx = (IF p.col > 0 THEN crop_pt ELSE 0)
            /\ p.box.lly = (IF p.row < 5 THEN crop_pt ELSE 0)
            /\ p.box.urx = tile_w - (IF p.col < 6 THEN crop_pt ELSE 0)
            /\ p.box.ury = tile_h - (IF p.row > 0 THEN crop_pt ELSE 0)

\* a tile on a block border that is not a grid border has been placed
C2_Witness ==
    /\ A4
    /\ \E p \in placed : p.row = 3 /\ p.col = 4 /\ p.crop_top /\ p.crop_left
    /\ \E p \in placed : p.row = 2 /\ p.col = 3 /\ p.crop_bottom /\ p.crop_right

\* the margin a placement carries: its translation minus the cropped tiles
\* before it in its block
margin_x(p) == p.lx - (p.col % COLS_PER_BLOCK[1]) * (tile_w - 2 * crop_pt)
margin_y(p) ==
    p.ly - (ROWS_PER_BLOCK - 1 - (p.row % ROWS_PER_BLOCK)) * (tile_h - 2 * crop_pt)

RECURSIVE SumWidths(_)
SumWidths(S) ==
    IF S = {} THEN 0
    ELSE LET p == CHOOSE x \in S : TRUE
         IN  cropped_width(p) + SumWidths(S \ {p})
RECURSIVE SumHeights(_)
SumHeights(S) ==
    IF S = {} THEN 0
    ELSE LET p == CHOOSE x \in S : TRUE
         IN  cropped_height(p) + SumHeights(S \ {p})

\* the cropped tiles of one row / one column of a sheet
blockFootprintWidth(p)  == SumWidths({q \in placed : q.a0_idx = p.a0_idx /\ q.row = p.row})
blockFootprintHeight(p) == SumHeights({q \in placed : q.a0_idx = p.a0_idx /\ q.col = p.col})

\* C3 (as stated). Centering: once every tile is placed, on each of the four
\* sheets twice the horizontal margin plus the width of the cropped tiles
\* of one row of the sheet is the sheet width, and the same vertically.
C3_CenteredOnEverySheet ==
    (A4 /\ pc = "done") => \A p \in placed :
        /\ 2 * margin_x(p) + blockFootprintWidth(p) = A0_W_PT
        /\ 2 * margin_y(p) + blockFootprintHeight(p) = A0_H_PT

\* C3 (amended). On the left sheets the horizontal margin is
\* (sheetWidth - (4 tile_w - 3 crop_pt)) / 2, which leaves the cropped
\* footprint 4 crop_pt short of centred; on the right sheets it is
\* padding_pt.  On the top sheets the vertical margin is
\* (sheetHeight - (3 tile_h - 2 crop_pt)) / 2, which leaves the cropped
\* footprint 3 crop_pt short of centred; on the bottom sheets it is
\* padding_pt.
C3_MarginsAsComputed ==
    A4 => \A p \in placed :
        /\ p.col < 4 => 2 * margin_x(p) + (4 * tile_w - 3 * crop_pt) = A0_W_PT
        /\ p.col >= 4 => margin_x(p) = padding_pt
        /\ p.row < 3 => 2 * margin_y(p) + (3 * tile_h - 2 * crop_pt) = A0_H_PT
        /\ p.row >= 3 => margin_y(p) = padding_pt
        /\ (pc = "done" /\ p.col < 4)
             => 2 * margin_x(p) + blockFootprintWidth(p) + 4 * crop_pt = A0_W_PT
        /\ (pc = "done" /\ p.row < 3)
             => 2 * margin_y(p) + blockFootprintHeight(p) + 3 * crop_pt = A0_H_PT

C3_Witness ==
    /\ A4
    /\ pc = "done"
    /\ \A s \in 0..3 : \E p \in placed : p.a0_idx = s
    /\ tile_w = A4_expected_w

disjoint_interiors(p, q) ==
    \/ vis_x1(p) <= vis_x0(q)
    \/ vis_x1(q) <= vis_x0(p)
    \/ vis_y1(p) <= vis_y0(q)
    \/ vis_y1(q) <= vis_y0(p)

\* C4. Non-overlap: every page handled so far is merged onto exactly one of
\* the allocated sheets, and two different tiles on one sheet have visible
\* rectangles with disjoint interiors.
C4_NonOverlap ==
    A4 =>
      /\ \A i \in 0..(idx - 1) :
            Cardinality({p \in placed : p.idx = i}) = 1
      /\ \A p \in placed : p.a0_idx \in 0..(sheets - 1)
      /\ \A p, q \in placed :
            (p.idx # q.idx /\ p.a0_idx = q.a0_idx) => disjoint_interiors(p, q)

C4_Witness ==
    /\ A4
    /\ pc = "done"
    /\ Cardinality(placed) = EXPECTED_PAGES
    /\ \E p, q \in placed : p.idx # q.idx /\ p.a0_idx = q.a0_idx

\* the centring margin the program computes from its input is below the
\* minimum margin
MarginBelowMin ==
    \/ /\ A4
       /\ PageCountOk(Len(pages))
       /\ \/ LEFT_BLOCK_MARGIN_X(pages[1].w) < padding_pt
          \/ TOP_BLOCK_MARGIN_Y(pages[1].h) < padding_pt
    \/ /\ Conv
       /\ \E i \in 1..Len(pages) :
            \/ new_w_margin(pages[i]) < MARGIN_PT
            \/ new_h_margin(pages[i]) < MARGIN_PT

\* C5. Minimum-margin validation: when the computed centring margin is
\* below the minimum, no tile is ever merged onto a sheet, the output is
\* never written and the run does not complete.
C5_MinMarginAborts ==
    MarginBelowMin => (placed = {} /\ ~written /\ pc # "done")

\* C6. Outer-boundary invariant: row 0 keeps its top edge, row ROWS-1 its
\* bottom edge, column 0 its left edge, column COLS-1 its right edge.
C6_OuterBoundary ==
    A4 => \A p \in placed :
            /\ p.row = 0 => (~p.crop_top /\ p.box.ury = tile_h)
            /\ p.row = ROWS - 1 => (~p.crop_bottom /\ p.box.lly = 0)
            /\ p.col = 0 => (~p.crop_left /\ p.box.llx = 0)
            /\ p.col = COLS - 1 => (~p.crop_right /\ p.box.urx = tile_w)

C6_Witness ==
    /\ A4
    /\ \E p \in placed : p.row = 0 /\ p.col = 0
    /\ \E p \in placed : p.row = ROWS - 1 /\ p.col = COLS - 1

\* C7. Partition: page idx of the 42 is merged onto sheet
\* (row div 3) * 2 + (col div 4) with (row, col) = divmod(idx, 7), exactly
\* four sheets are allocated, and idx -> (sheetRow, sheetCol, row mod 3,
\* col mod 4) is injective.
C7_Partition ==
    A4 =>
      /\ pc \in {"loop", "done"} => sheets = 4
      /\ \A p \in placed :
            /\ p.idx \in 0..41
            /\ p.row = p.idx \div 7
            /\ p.col = p.idx % 7
            /\ p.a0_idx = (p.row \div 3) * 2 + (p.col \div 4)
      /\ \A p, q \in placed :
            ( /\ p.a0_idx = q.a0_idx
              /\ p.row % 3 = q.row % 3
              /\ p.col % 4 = q.col % 4 ) => p.idx = q.idx

C7_Witness ==
    /\ A4
    /\ pc = "done"
    /\ sheets = 4
    /\ \A i \in 0..41 : \E p \in placed : p.idx = i

\* C8. No partial output: the output is written only after every input
\* page has been merged onto its sheet and no fatal error has occurred; a
\* run that ended in a fatal error has not written the output.
C8_NoPartialOutput ==
    /\ written =>
         /\ pc = "done"
         /\ \A i \in 0..(Len(pages) - 1) : \E p \in placed : p.idx = i
    /\ pc = "fatal" => ~written

C8_Witness ==
    \/ A4 /\ written /\ Cardinality(placed) = EXPECTED_PAGES
    \/ Conv /\ written /\ Cardinality(placed) = MaxPages

\* C9. Page-count check: with a page count other than 42 the run allocates
\* no sheet, merges no tile, writes no output, and its only step is the
\* fatal exit.
C9_PageCountCheck ==
    (A4 /\ Len(pages) # 42) =>
      /\ sheets = 0
      /\ placed = {}
      /\ ~written
      /\ pc \in {"start", "fatal"}

C9_Witness ==
    A4 /\ Len(pages) # 42 /\ pc = "fatal"

\* C10. Sheet containment: with nominal A4 tiles every visible rectangle
\* lies inside the A0 sheet, at least padding_pt from each of its edges.
C10_SheetContainment ==
    (A4 /\ tile_w = 210 * MM2PT /\ tile_h = 297 * MM2PT) =>
      \A p \in placed :
        /\ vis_x0(p) >= padding_pt
        /\ vis_y0(p) >= padding_pt
        /\ vis_x1(p) <= 841 * MM2PT - padding_pt
        /\ vis_y1(p) <= 1189 * MM2PT - padding_pt

C10_Witness ==
    /\ A4
    /\ tile_w = 210 * MM2PT
    /\ tile_h = 297 * MM2PT
    /\ pc = "done"
    /\ Cardinality(placed) = EXPECTED_PAGES
    /\ \E p \in placed : vis_y0(p) = padding_pt

====
